---- MODULE Spec2Model ----
(***************************************************************************)
(* State-machine model of the authentication / authorization core of the   *)
(* auth-system-api repository:                                              *)
(*   - controllers/authController.js : register, login, refreshToken,       *)
(*                                     logout, changePassword               *)
(*   - middleware/auth.js            : authenticate, optionalAuthenticate   *)
(*   - middleware/authorize.js       : authorize                            *)
(*   - services/tokenService.js      : TokenService.verifyToken             *)
(*   - models/Token.js, models/User.js : the two stores                     *)
(* The specifications share the variables:                                  *)
(*   Spec       the request handlers interleaved at their store accesses    *)
(*   SpecSeq    the login and refresh handlers, one exchange at a time      *)
(*   SpecLogout login, refresh and logout interleaved                       *)
(*   SpecAuthz  authorize(allowedRoles, module) applied to drawn inputs     *)
(*   SpecTS     TokenService generate / verify                              *)
(*   SpecGate   authenticate | optionalAuthenticate, then authorize         *)
(*   SpecReg    POST /auth/register                                         *)
(*   SpecGuards canManageCycle and canViewRegion of middleware/wfpAuth.js   *)
(*   SpecPerm   hasPermission, requireWfpRole, requireWfpPermission and     *)
(*              the two resource guards, applied to drawn principals        *)
(***************************************************************************)
EXTENDS Integers, FiniteSets, Sequences, TLC

VARIABLES
    users,      \* Identity Store: UserIds -> [role, accessibleModules,
                \*                             isActive, password]
    tokens,     \* Credential Store: set of Token documents
    now,        \* Date.now() in seconds
    events,     \* number of logins, request arrivals and clock advances so far
    issued,     \* JWTs that were handed to a client in a response
    reqs,       \* the HTTP requests in flight
    last,       \* the request answered last, with its answer
    exchanged,  \* history: refresh tokens whose exchange answered 200
    revokedSeq, \* history: refresh tokens issued before a password change
    loggedOut,  \* history: refresh tokens whose logout answered 200
    preChange,  \* history: refresh tokens issued before the last password
                \* change that answered 200
    refreshSecret, \* the value of process.env.JWT_REFRESH_SECRET
    azUser,     \* authorize: req.user
    azAllowed,  \* authorize: allowedRoles
    azModule,   \* authorize: module
    azResult,   \* authorize: outcome
    tsConfig,   \* TokenService: whether JWT_CONFIG defines SECRET etc.
    tsIssued,   \* TokenService: tokens it generated
    tsToken,    \* TokenService.verifyToken: token argument
    tsType,     \* TokenService.verifyToken: type argument
    tsResult,   \* TokenService.verifyToken: return value
    gwMw,       \* gate: the middleware in front of the route
    gwHdr,      \* gate: scheme of the Authorization header
    gwTok,      \* gate: credential in the Authorization header
    gwTokRole,  \* gate: the role claim in the payload of that credential
    gwFault,    \* gate: User.findById rejects (store unreachable)
    gwPc,       \* gate: position in the middleware chain
    gwNext,     \* gate: the middleware called next()
    gwStatus,   \* gate: status of the response sent, 0 while none is
    regs,       \* register: the POST /auth/register requests
    registered, \* register: history, the identities created by register
    gdGuard,    \* resource guard: canManageCycle or canViewRegion
    gdUser,     \* resource guard: req.user
    gdRes,      \* resource guard: the cycle id or region the request names,
                \* or the permission the guard was built with
    gdRoles,    \* requireWfpRole: allowedRoles
    gdResult    \* resource guard: outcome

mainVars == <<users, tokens, now, events, issued, reqs, last,
              exchanged, revokedSeq, loggedOut, preChange, refreshSecret>>
azVars == <<azUser, azAllowed, azModule, azResult>>
tsVars == <<tsConfig, tsIssued, tsToken, tsType, tsResult>>
gwVars == <<gwMw, gwHdr, gwTok, gwTokRole, gwFault, gwPc, gwNext, gwStatus>>
regVars == <<regs, registered>>
gdVars == <<gdGuard, gdUser, gdRes, gdRoles, gdResult>>
vars == <<users, tokens, now, events, issued, reqs, last,
          exchanged, revokedSeq, loggedOut, preChange, refreshSecret,
          azUser, azAllowed, azModule, azResult,
          tsConfig, tsIssued, tsToken, tsType, tsResult,
          gwMw, gwHdr, gwTok, gwTokRole, gwFault, gwPc, gwNext, gwStatus,
          regs, registered, gdGuard, gdUser, gdRes, gdRoles, gdResult>>

----------------------------------------------------------------------------
(* Bounds *)

MaxEvents == 4
MaxReqs == 2
MaxAllowedRoles == 3

----------------------------------------------------------------------------
(* Program constants *)

\* JWT_ACCESS_EXPIRATION default "15m", in seconds
AccessTTL == 900
\* JWT_REFRESH_EXPIRATION default "7d" and the Token document lifetime, in seconds
RefreshTTL == 604800

\* the stored identities
UserIds == {"u1"}
\* a subject id that no stored identity has
GhostId == "u0"
Passwords == {"pw1", "pw2"}
Modules == {"dube", "wfp"}

\* process.env.JWT_SECRET, and a value of process.env.JWT_REFRESH_SECRET that
\* differs from it
JWT_SECRET == "access-secret"
JWT_REFRESH_SECRET == "refresh-secret"

NoTok == [kind |-> "none", sub |-> "", iat |-> 0]
\* a string that is not a JWT at all ("invalid.token.here")
Garbage == [kind |-> "garbage", sub |-> "", iat |-> 0]

\* the clock advances by a second, by an access lifetime or by a refresh lifetime
Deltas == {1, AccessTTL, RefreshTTL}

----------------------------------------------------------------------------
(* jsonwebtoken, as used by authController.generateTokens and authenticate *)

\* generateTokens(user).accessToken : payload {userId,...}, signed with JWT_SECRET
AccessTokenOf(u, t) == [kind |-> "access", sub |-> u, iat |-> t]
\* generateTokens(user).refreshToken : payload {userId}, signed with JWT_REFRESH_SECRET
RefreshTokenOf(u, t) == [kind |-> "refresh", sub |-> u, iat |-> t]

\* the secret a token produced by generateTokens was signed with
SignedWith(tok) ==
    IF tok.kind = "access" THEN JWT_SECRET
    ELSE IF tok.kind = "refresh" THEN refreshSecret
    ELSE "unsigned"

\* exp claim: iat + expiresIn
ExpOf(tok) == tok.iat + (IF tok.kind = "access" THEN AccessTTL ELSE RefreshTTL)

\* JwtVerify without the check of the exp claim
JwtVerify_IgnoringExp(tok, secret, t) ==
    /\ tok.kind \in {"access", "refresh"}
    /\ SignedWith(tok) = secret

\* jwt.verify(token, secret) does not throw: signature matches and t < exp
JwtVerify(tok, secret, t) ==
    /\ tok.kind \in {"access", "refresh"}
    /\ SignedWith(tok) = secret
    /\ t < ExpOf(tok)

----------------------------------------------------------------------------
(* Requests *)

ReqIds == 1..MaxReqs

\* op, pc, tok, route, t0 (time of the request's new Date()), newIat (iat of
\* the pair generateTokens made) and status are the request's own state; the
\* other fields are history: created (Token.create inserted), again (the
\* token had already been exchanged with a 200 when this exchange got its
\* 200), reached (next() was called), afterSuccess / afterPwd / afterDeact
\* (what had already happened when the request arrived), why (what the
\* request carried, see Carried) and activeAtStart (the subject was active
\* when it arrived).
IdleReq == [op |-> "none", pc |-> "idle", tok |-> NoTok,
            route |-> "none", t0 |-> 0, newIat |-> -1,
            status |-> 0, created |-> FALSE, again |-> FALSE, reached |-> FALSE,
            afterSuccess |-> FALSE, afterPwd |-> FALSE,
            afterDeact |-> FALSE, why |-> "none", activeAtStart |-> FALSE]

\* the response is sent: the request keeps its answer and its history only
Respond(rq, code) ==
    [rq EXCEPT !.pc = "done", !.status = code, !.route = "none", !.t0 = 0,
               !.tok = IF rq.op = "refresh" THEN rq.tok ELSE NoTok]

\* request r moves on as rq; an answered request leaves its slot to the next
\* arrival and is remembered as the last answer
Settle(r, rq) ==
    IF rq.pc = "done"
    THEN /\ reqs' = [reqs EXCEPT ![r] = IdleReq]
         /\ last' = rq
    ELSE /\ reqs' = [reqs EXCEPT ![r] = rq]
         /\ last' = last

\* a request takes the first free slot
CanStart(r) ==
    /\ events < MaxEvents
    /\ reqs[r].pc = "idle"
    /\ \A q \in ReqIds : q < r => reqs[q].pc # "idle"

InFlight(r) == reqs[r].pc # "idle"

\* what a client can put in a request: any token it was given, or junk
\* (NoTok stands for a request that carries no token at all)
Presentable == issued \cup {Garbage}

----------------------------------------------------------------------------
(* Credential Store (models/Token.js) and Identity Store (models/User.js) *)

\* FindUnused without the used: false condition
FindUnused_IgnoringUsed(tok, t) ==
    {d \in tokens : d.token = tok /\ d.expiresAt > t}

\* Token.findOne({token, type: "refresh", used: false, expiresAt: {$gt: t}})
FindUnused(tok, t) ==
    {d \in tokens : d.token = tok /\ d.used = FALSE /\ d.expiresAt > t}

\* the unique index on token: a second document with the same string is refused
DuplicateKey(tok) == \E d \in tokens : d.token = tok

\* saveRefreshToken -> Token.create({userId, token, type, expiresAt: now + 7d})
NewTokenDoc(u, tok, t) ==
    [token |-> tok, userId |-> u, used |-> FALSE, expiresAt |-> t + RefreshTTL]

\* tokenDoc.used = true; tokenDoc.save() : writes used to the document read
MarkUsed(tok) ==
    {IF d.token = tok THEN [d EXCEPT !.used = TRUE] ELSE d : d \in tokens}

\* RevokeAllForUser with a filter that matches no document
RevokeAllForUser_MatchingNone(u) == tokens

\* Token.updateMany({userId, type: "refresh", used: false}, {used: true})
RevokeAllForUser(u) ==
    {IF d.userId = u THEN [d EXCEPT !.used = TRUE] ELSE d : d \in tokens}

\* the documents of u in store that an exchange at time t would still accept
Exchangeable(store, u, t) ==
    {d \in store : /\ d.userId = u /\ d.used = FALSE /\ d.expiresAt > t
                   /\ JwtVerify(d.token, refreshSecret, t)}

\* a document for tok exists and is marked used
IsUsed(tok) == \E d \in tokens : d.token = tok /\ d.used

\* User.findById(id) finds a document
UserExists(u) == u \in DOMAIN users

\* bcrypt.compare(candidate, user.password)
ComparePassword(u, candidate) == users[u].password = candidate

----------------------------------------------------------------------------
(* AuthController.login *)

\* The answers that leave both stores as they were (401 unknown email or wrong
\* password, 403 deactivated, 500 duplicate refresh token string) are the
\* guards; the 200 path creates the Token document and hands out the pair.
Login(u, pwd) ==
    /\ events < MaxEvents
    /\ UserExists(u)
    /\ users[u].isActive
    /\ ComparePassword(u, pwd)
    /\ ~DuplicateKey(RefreshTokenOf(u, now))
    /\ tokens' = tokens \cup {NewTokenDoc(u, RefreshTokenOf(u, now), now)}
    /\ issued' = issued \cup {AccessTokenOf(u, now), RefreshTokenOf(u, now)}
    /\ events' = events + 1
    /\ UNCHANGED <<users, now, reqs, last, exchanged, revokedSeq,
                   loggedOut, preChange, refreshSecret>>
    /\ UNCHANGED azVars /\ UNCHANGED tsVars /\ UNCHANGED gwVars
    /\ UNCHANGED regVars /\ UNCHANGED gdVars

----------------------------------------------------------------------------
(* AuthController.refreshToken, one action per store access *)

\* lines 204-222: body check and jwt.verify with the refresh secret
RefreshStart(r, tok) ==
    /\ CanStart(r)
    /\ LET base == [IdleReq EXCEPT !.op = "refresh", !.tok = tok, !.t0 = now,
                       !.afterSuccess = (tok \in exchanged),
                       !.afterPwd = (tok \in revokedSeq)]
       IN  Settle(r,
              IF tok = NoTok
              THEN Respond(base, 400)
              ELSE IF JwtVerify(tok, refreshSecret, now)
              THEN [base EXCEPT !.pc = "findOne"]
              ELSE Respond(base, 401))
    /\ events' = events + 1
    /\ UNCHANGED <<users, tokens, now, issued, exchanged, revokedSeq,
                   loggedOut, preChange, refreshSecret>>
    /\ UNCHANGED azVars /\ UNCHANGED tsVars /\ UNCHANGED gwVars
    /\ UNCHANGED regVars /\ UNCHANGED gdVars

\* lines 225-237: Token.findOne reads the store
RefreshFindOne(r) ==
    /\ reqs[r].op = "refresh" /\ reqs[r].pc = "findOne"
    /\ LET found == FindUnused(reqs[r].tok, reqs[r].t0)
       IN  Settle(r,
              IF found = {}
              THEN Respond(reqs[r], 401)
              ELSE [reqs[r] EXCEPT !.pc = "findUser", !.t0 = 0])
    /\ UNCHANGED <<users, tokens, now, events, issued, exchanged, revokedSeq,
                   loggedOut, preChange, refreshSecret>>
    /\ UNCHANGED azVars /\ UNCHANGED tsVars /\ UNCHANGED gwVars
    /\ UNCHANGED regVars /\ UNCHANGED gdVars

\* lines 240-253: User.findById, generateTokens, tokenDoc.used = true
RefreshFindUser(r) ==
    /\ reqs[r].op = "refresh" /\ reqs[r].pc = "findUser"
    /\ Settle(r,
          IF ~UserExists(reqs[r].tok.sub)
          THEN Respond(reqs[r], 401)
          ELSE [reqs[r] EXCEPT !.pc = "save", !.newIat = now])
    /\ UNCHANGED <<users, tokens, now, events, issued, exchanged, revokedSeq,
                   loggedOut, preChange, refreshSecret>>
    /\ UNCHANGED azVars /\ UNCHANGED tsVars /\ UNCHANGED gwVars
    /\ UNCHANGED regVars /\ UNCHANGED gdVars

\* line 254: tokenDoc.save() writes used = true
RefreshSave(r) ==
    /\ reqs[r].op = "refresh" /\ reqs[r].pc = "save"
    /\ tokens' = MarkUsed(reqs[r].tok)
    /\ Settle(r, [reqs[r] EXCEPT !.pc = "create"])
    /\ UNCHANGED <<users, now, events, issued, exchanged, revokedSeq,
                   loggedOut, preChange, refreshSecret>>
    /\ UNCHANGED azVars /\ UNCHANGED tsVars /\ UNCHANGED gwVars
    /\ UNCHANGED regVars /\ UNCHANGED gdVars

\* lines 257-278: saveRefreshToken, then 200; a duplicate key lands in the catch (500)
RefreshCreate(r) ==
    /\ reqs[r].op = "refresh" /\ reqs[r].pc = "create"
    /\ LET u == reqs[r].tok.sub
           newRefresh == RefreshTokenOf(u, reqs[r].newIat)
           newAccess == AccessTokenOf(u, reqs[r].newIat)
       IN  IF DuplicateKey(newRefresh)
           THEN /\ Settle(r, Respond(reqs[r], 500))
                /\ UNCHANGED <<tokens, issued, exchanged>>
           ELSE /\ tokens' = tokens \cup {NewTokenDoc(u, newRefresh, now)}
                /\ issued' = issued \cup {newAccess, newRefresh}
                /\ exchanged' = exchanged \cup {reqs[r].tok}
                /\ Settle(r,
                                Respond([reqs[r] EXCEPT !.created = TRUE,
                                              !.again = (reqs[r].tok \in exchanged)],
                                        200))
    /\ UNCHANGED <<users, now, events, revokedSeq,
                   loggedOut, preChange, refreshSecret>>
    /\ UNCHANGED azVars /\ UNCHANGED tsVars /\ UNCHANGED gwVars
    /\ UNCHANGED regVars /\ UNCHANGED gdVars

----------------------------------------------------------------------------
(* middleware/auth.js authenticate, then the route handler behind it *)

\* the Authorization header: absent, "<other scheme> <credential>" or
\* "Bearer <credential>"
Headers == {"none", "Basic", "Bearer"}
Routes == {"me", "change-password"}

\* what an incoming request carries, told from its header and token alone
Carried(hdr, tok, t) ==
    IF hdr = "none" THEN "noHeader"
    ELSE IF hdr # "Bearer" THEN "notBearer"
    ELSE IF tok.kind \notin {"access", "refresh"} THEN "invalid"
    ELSE IF SignedWith(tok) # JWT_SECRET THEN "invalid"
    ELSE IF t >= ExpOf(tok) THEN "expired"
    ELSE IF tok.sub \notin DOMAIN users THEN "unknown"
    ELSE "ok"

\* NoBearer without the startsWith("Bearer ") test
NoBearer_OnlyMissing(hdr) == hdr = "none"

\* line 13: !authHeader || !authHeader.startsWith("Bearer ")
NoBearer(hdr) == hdr # "Bearer"

\* AccountBlocked with the isActive test left out
AccountBlocked_Never(u) == FALSE

\* line 49: !user.isActive
AccountBlocked(u) == ~users[u].isActive

\* lines 11-37: header check and jwt.verify with the access secret
AuthStart(r, hdr, tok, route) ==
    /\ CanStart(r)
    /\ hdr = "none" <=> tok = NoTok
    /\ LET verified == JwtVerify(tok, JWT_SECRET, now)
           why == Carried(hdr, tok, now)
           stored == tok.sub \in DOMAIN users
           base == [IdleReq EXCEPT !.op = "auth", !.tok = tok, !.route = route,
                       !.why = why,
                       !.activeAtStart = (stored /\ users[tok.sub].isActive),
                       !.afterDeact =
                           (why = "ok" /\ ~users[tok.sub].isActive)]
       IN  Settle(r,
              IF NoBearer(hdr)
              THEN Respond(base, 401)
              ELSE IF ~verified
              THEN Respond(base, 401)
              ELSE [base EXCEPT !.pc = "findUser"])
    /\ events' = events + 1
    /\ UNCHANGED <<users, tokens, now, issued, exchanged, revokedSeq,
                   loggedOut, preChange, refreshSecret>>
    /\ UNCHANGED azVars /\ UNCHANGED tsVars /\ UNCHANGED gwVars
    /\ UNCHANGED regVars /\ UNCHANGED gdVars

\* lines 40-64: User.findById, existence and isActive checks, next()
AuthFindUser(r) ==
    /\ reqs[r].op = "auth" /\ reqs[r].pc = "findUser"
    /\ LET u == reqs[r].tok.sub
       IN  Settle(r,
              IF ~UserExists(u)
              THEN Respond(reqs[r], 401)
              ELSE IF AccountBlocked(u)
              THEN Respond(reqs[r], 403)
              ELSE [reqs[r] EXCEPT !.pc = "handler", !.reached = TRUE])
    /\ UNCHANGED <<users, tokens, now, events, issued, exchanged, revokedSeq,
                   loggedOut, preChange, refreshSecret>>
    /\ UNCHANGED azVars /\ UNCHANGED tsVars /\ UNCHANGED gwVars
    /\ UNCHANGED regVars /\ UNCHANGED gdVars

\* AuthController.getProfile behind GET /me
GetProfile(r) ==
    /\ reqs[r].op = "auth" /\ reqs[r].pc = "handler" /\ reqs[r].route = "me"
    /\ Settle(r,
          Respond(reqs[r], IF UserExists(reqs[r].tok.sub) THEN 200 ELSE 404))
    /\ UNCHANGED <<users, tokens, now, events, issued, exchanged, revokedSeq,
                   loggedOut, preChange, refreshSecret>>
    /\ UNCHANGED azVars /\ UNCHANGED tsVars /\ UNCHANGED gwVars
    /\ UNCHANGED regVars /\ UNCHANGED gdVars

\* the refresh tokens handed out to u so far, when no exchange is in flight
IssuedRefreshOf(u) == {t \in issued : t.kind = "refresh" /\ t.sub = u}

NoExchangeInFlight == \A q \in ReqIds : ~(reqs[q].op = "refresh" /\ InFlight(q))

\* AuthController.changePassword behind POST /change-password
ChangePassword(r, currentPassword, newPassword) ==
    /\ reqs[r].op = "auth" /\ reqs[r].pc = "handler"
    /\ reqs[r].route = "change-password"
    /\ LET userId == reqs[r].tok.sub
       IN  IF ~UserExists(userId)
           THEN /\ Settle(r, Respond(reqs[r], 404))
                /\ UNCHANGED <<users, tokens, revokedSeq, preChange>>
           ELSE IF ~ComparePassword(userId, currentPassword)
           THEN /\ Settle(r, Respond(reqs[r], 401))
                /\ UNCHANGED <<users, tokens, revokedSeq, preChange>>
           ELSE /\ users' = [users EXCEPT ![userId].password = newPassword]
                /\ tokens' = RevokeAllForUser(userId)
                /\ revokedSeq' = IF NoExchangeInFlight
                                 THEN revokedSeq \cup IssuedRefreshOf(userId)
                                 ELSE revokedSeq
                /\ preChange' = IssuedRefreshOf(userId)
                /\ Settle(r, Respond(reqs[r], 200))
    /\ UNCHANGED <<now, events, issued, exchanged, loggedOut, refreshSecret>>
    /\ UNCHANGED azVars /\ UNCHANGED tsVars /\ UNCHANGED gwVars
    /\ UNCHANGED regVars /\ UNCHANGED gdVars

----------------------------------------------------------------------------
(* Environment *)

\* an administrator suspends the account: userSchema.isActive := false
Deactivate(u) ==
    /\ UserExists(u)
    /\ users[u].isActive
    /\ users' = [users EXCEPT ![u].isActive = FALSE]
    /\ UNCHANGED <<tokens, now, events, issued, reqs, last, exchanged,
                   revokedSeq,
                   loggedOut, preChange, refreshSecret>>
    /\ UNCHANGED azVars /\ UNCHANGED tsVars /\ UNCHANGED gwVars
    /\ UNCHANGED regVars /\ UNCHANGED gdVars

Tick(d) ==
    /\ events < MaxEvents
    /\ now' = now + d
    /\ events' = events + 1
    /\ UNCHANGED <<users, tokens, issued, reqs, last, exchanged, revokedSeq,
                   loggedOut, preChange, refreshSecret>>
    /\ UNCHANGED azVars /\ UNCHANGED tsVars /\ UNCHANGED gwVars
    /\ UNCHANGED regVars /\ UNCHANGED gdVars

----------------------------------------------------------------------------
(* Specification of the request handlers *)

AzIdle ==
    /\ azUser = [present |-> FALSE, role |-> "user", modules |-> {}]
    /\ azAllowed = {}
    /\ azModule = "null"
    /\ azResult = "none"

GwIdle ==
    /\ gwMw = "authenticate"
    /\ gwHdr = "none"
    /\ gwTok = NoTok
    /\ gwTokRole = "none"
    /\ gwFault = FALSE
    /\ gwPc = "idle"
    /\ gwNext = FALSE
    /\ gwStatus = 0

\* a POST /auth/register request: its position, its body (email as sent, role; valid
\* tells whether name, email and password pass their validators), its answer
\* and whether it created an identity or a Token document
IdleReg == [pc |-> "idle", email |-> "", role |-> "absent", valid |-> FALSE,
            status |-> 0, created |-> FALSE]

RegIdle ==
    /\ regs = [q \in ReqIds |-> IdleReg]
    /\ registered = {}

\* hasWfpPermission: "undefined" when req.user has no such method (the object
\* that authenticate builds has none), else what the method returns
NoGuardUser == [present |-> FALSE, role |-> "user",
                assignedCycles |-> {}, assignedRegions |-> {},
                hasWfpPermission |-> "undefined"]

GdIdle ==
    /\ gdGuard = "canManageCycle"
    /\ gdUser = NoGuardUser
    /\ gdRes = "none"
    /\ gdRoles = {}
    /\ gdResult = "none"

TsIdle ==
    /\ tsConfig = FALSE
    /\ tsIssued = {}
    /\ tsToken = Garbage
    /\ tsType = "access"
    /\ tsResult = "none"

\* The identity was registered earlier. The Credential Store is empty, or holds
\* the session of a login of u1 in second 0. One access token is in circulation
\* whose subject is in no store (the database was reset under the same
\* JWT_SECRET).
MainInit ==
    /\ users = [u \in UserIds |->
                  [role |-> "wfp_viewer", accessibleModules |-> {"wfp"},
                   isActive |-> TRUE, password |-> "pw1"]]
    /\ \/ /\ tokens = {}
          /\ issued = {AccessTokenOf(GhostId, 0)}
       \/ /\ tokens = {NewTokenDoc("u1", RefreshTokenOf("u1", 0), 0)}
          /\ issued = {AccessTokenOf(GhostId, 0), AccessTokenOf("u1", 0),
                       RefreshTokenOf("u1", 0)}
    /\ now = 0
    /\ events = 0
    /\ reqs = [r \in ReqIds |-> IdleReq]
    /\ last = IdleReq
    /\ exchanged = {}
    /\ revokedSeq = {}
    /\ loggedOut = {}
    /\ preChange = {}
    /\ refreshSecret = JWT_REFRESH_SECRET

Init == MainInit /\ AzIdle /\ TsIdle /\ GwIdle /\ RegIdle /\ GdIdle

Next ==
    \/ \E u \in UserIds, pwd \in Passwords : Login(u, pwd)
    \/ \E r \in ReqIds, tok \in Presentable \cup {NoTok} : RefreshStart(r, tok)
    \/ \E r \in ReqIds : RefreshFindOne(r)
    \/ \E r \in ReqIds : RefreshFindUser(r)
    \/ \E r \in ReqIds : RefreshSave(r)
    \/ \E r \in ReqIds : RefreshCreate(r)
    \/ \E r \in ReqIds, hdr \in Headers, tok \in Presentable \cup {NoTok},
             route \in Routes :
          AuthStart(r, hdr, tok, route)
    \/ \E r \in ReqIds : AuthFindUser(r)
    \/ \E r \in ReqIds : GetProfile(r)
    \/ \E r \in ReqIds, cur \in Passwords, new \in Passwords :
          ChangePassword(r, cur, new)
    \/ \E u \in UserIds : Deactivate(u)
    \/ \E d \in Deltas : Tick(d)

Spec == Init /\ [][Next]_vars

----------------------------------------------------------------------------
(* middleware/authorize.js authorize(allowedRoles, module) *)

\* the keys of roleHierarchy
Roles == {"super_admin", "admin", "dube_admin", "wfp_admin", "dube_viewer",
          "wfp_viewer", "dube_field_agent", "wfp_health_officer", "user"}

\* roleHierarchy[role]
RoleLevel(role) ==
    CASE role = "super_admin" -> 100
      [] role = "admin" -> 90
      [] role \in {"dube_admin", "wfp_admin"} -> 80
      [] role \in {"dube_viewer", "wfp_viewer"} -> 70
      [] role \in {"dube_field_agent", "wfp_health_officer"} -> 60
      [] OTHER -> 0

\* Math.max() of no arguments is -Infinity: below every level
NegInfinity == -1

\* Math.max(...allowedRoles.map(role => roleHierarchy[role] || 0))
MinRequiredLevel(allowedRoles) ==
    IF allowedRoles = {} THEN NegInfinity
    ELSE CHOOSE m \in {RoleLevel(a) : a \in allowedRoles} :
            \A a \in allowedRoles : RoleLevel(a) <= m

NoUser == [present |-> FALSE, role |-> "user", modules |-> {}]

\* the value of a property that the object does not have
Undefined == {"undefined"}

\* line 23: req.user.modules || []
UserModules(user) == IF user.modules = Undefined THEN {} ELSE user.modules

\* IsTopRole comparing against a role name no principal has
IsTopRole_Misspelt(user) == user.role = "superadmin"

\* line 26: userRole === "super_admin"
IsTopRole(user) == user.role = "super_admin"

\* ModuleDenied letting the system admin through before the module test
ModuleDenied_AdminExempt(user, module) ==
    module # "null" /\ module \notin UserModules(user) /\ user.role # "admin"

\* line 31: module && !userModules.includes(module)
ModuleDenied(user, module) ==
    module # "null" /\ module \notin UserModules(user)

\* line 39: allowedRoles.length > 0 && !allowedRoles.includes(userRole)
RoleNotListed(user, allowedRoles) ==
    allowedRoles # {} /\ user.role \notin allowedRoles

\* the middleware returned by authorize(allowedRoles, module), applied to req.user
Authorize(user, allowedRoles, module) ==
    IF ~user.present THEN "401"
    ELSE IF IsTopRole(user) THEN "next"
    ELSE IF ModuleDenied(user, module) THEN "403-module"
    ELSE IF RoleNotListed(user, allowedRoles) THEN "403-permissions"
    ELSE IF module # "null" /\ user.role = "admin" THEN "next"
    ELSE IF RoleLevel(user.role) < MinRequiredLevel(allowedRoles)
         THEN "403-privileges"
    ELSE "next"

\* StatusOf answering the module denial as if no principal were attached
StatusOf_ModuleAs401(result) ==
    CASE result \in {"401", "403-module"} -> 401
      [] result \in {"403-permissions", "403-privileges"} -> 403
      [] OTHER -> 0

\* the HTTP status of an outcome; next() sends none
StatusOf(result) ==
    CASE result = "401" -> 401
      [] result \in {"403-module", "403-permissions", "403-privileges"} -> 403
      [] OTHER -> 0

Principals ==
    {NoUser} \cup
    [present : {TRUE}, role : Roles,
     modules : (SUBSET Modules) \cup {Undefined}]

RoleLists == {l \in SUBSET Roles : Cardinality(l) <= MaxAllowedRoles}

AzInit ==
    /\ azUser \in Principals
    /\ azAllowed \in RoleLists
    /\ azModule \in {"null"} \cup Modules
    /\ azResult = "none"

AuthorizeRequest ==
    /\ azResult = "none"
    /\ azResult' = Authorize(azUser, azAllowed, azModule)
    /\ UNCHANGED <<azUser, azAllowed, azModule>>
    /\ UNCHANGED mainVars /\ UNCHANGED tsVars /\ UNCHANGED gwVars
    /\ UNCHANGED regVars /\ UNCHANGED gdVars

InitAuthz == MainInit /\ AzInit /\ TsIdle /\ GwIdle /\ RegIdle /\ GdIdle

NextAuthz == AuthorizeRequest

SpecAuthz == InitAuthz /\ [][NextAuthz]_vars

\* the principal's module set satisfies the requirement's module scope
ModuleSatisfied(user, module) ==
    module = "null" \/ module \in UserModules(user)

C4_ListedRoleAllowed ==
    (/\ azResult # "none"
     /\ azUser.present
     /\ azUser.role \in azAllowed
     /\ azModule # "null"
     /\ azModule \in UserModules(azUser))
    => azResult = "next"

\* C6: the top role is allowed for every allowedRoles list and every module.
C6_TopRoleBypass ==
    (azResult # "none" /\ azUser.present /\ azUser.role = "super_admin")
    => azResult = "next"

\* super_admin passed an empty role list and a module it is not assigned
C6_Witness ==
    /\ azUser.present /\ azUser.role = "super_admin"
    /\ azAllowed = {} /\ azModule = "wfp" /\ azUser.modules = {}
    /\ azResult = "next"

\* C7: when a principal with role B is allowed and its module set satisfies
\* the module scope, a principal with any higher ranked role A and the same
\* module set is allowed too.
C7_RankMonotone ==
    (/\ azResult = "next"
     /\ azUser.present
     /\ ModuleSatisfied(azUser, azModule))
    => \A a \in Roles :
          RoleLevel(a) > RoleLevel(azUser.role) =>
             Authorize([azUser EXCEPT !.role = a], azAllowed, azModule) = "next"

----------------------------------------------------------------------------
(* services/tokenService.js TokenService *)

\* JWT_CONFIG.TOKEN_TYPES
TokenTypes == {"access", "refresh", "reset", "verify"}

\* generateAccessToken: {sub, role, type: "access", iat}, signed with this.secret
TsAccessTokenOf(u, t) == [kind |-> "ts-access", sub |-> u, iat |-> t]
\* generateRefreshToken: {sub, role, type: "refresh", iat}, signed with this.secret
TsRefreshTokenOf(u, t) == [kind |-> "ts-refresh", sub |-> u, iat |-> t]

\* decoded.type; the tokens of authController.generateTokens carry no type
TypeClaim(tok) ==
    IF tok.kind = "ts-access" THEN "access"
    ELSE IF tok.kind = "ts-refresh" THEN "refresh"
    ELSE "undefined"

\* exp of a TokenService token: iat + ACCESS_EXPIRY (15m) or REFRESH_EXPIRY (7d)
TsExpOf(tok) ==
    tok.iat + (IF tok.kind = "ts-access" THEN AccessTTL ELSE RefreshTTL)

\* line 1027: jwt.verify(token, this.secret, {issuer, audience, algorithms})
\* does not throw. It throws for every token while this.secret is undefined,
\* and for a token that this.secret did not sign.
TsJwtVerify(tok, t) ==
    /\ tsConfig
    /\ tok.kind \in {"ts-access", "ts-refresh"}
    /\ t < TsExpOf(tok)

\* TypeMismatch with the type comparison left out
TypeMismatch_Unchecked(tok, type) == FALSE

\* line 1030: decoded.type !== type
TypeMismatch(tok, type) == TypeClaim(tok) # type

\* verifyToken(token, type): the decoded payload, or null
VerifyToken(tok, type) ==
    IF ~TsJwtVerify(tok, now) THEN "null"
    ELSE IF TypeMismatch(tok, type) THEN "null"
    ELSE "payload"

\* generateAuthTokens(user); jwt.sign throws while this.secret is undefined
TsGenerateAuthTokens(u) ==
    /\ tsConfig
    /\ events < MaxEvents
    /\ events' = events + 1
    /\ tsIssued' = tsIssued \cup {TsAccessTokenOf(u, now), TsRefreshTokenOf(u, now)}
    /\ UNCHANGED <<tsConfig, tsToken, tsType, tsResult>>
    /\ UNCHANGED <<users, tokens, now, issued, reqs, last, exchanged, revokedSeq,
                   loggedOut, preChange, refreshSecret>>
    /\ UNCHANGED azVars /\ UNCHANGED gwVars
    /\ UNCHANGED regVars /\ UNCHANGED gdVars

TsVerifyToken(tok, type) ==
    /\ tsToken' = tok
    /\ tsType' = type
    /\ tsResult' = VerifyToken(tok, type)
    /\ UNCHANGED <<tsConfig, tsIssued>>
    /\ UNCHANGED mainVars /\ UNCHANGED azVars /\ UNCHANGED gwVars
    /\ UNCHANGED regVars /\ UNCHANGED gdVars

\* this.secret, this.algorithm, this.issuer and this.audience are read from
\* JWT_CONFIG.SECRET, ALGORITHM, ISSUER and AUDIENCE in the constructor:
\* config/jwt.js defines none of them (tsConfig = FALSE); tsConfig = TRUE is a
\* configuration that does.
TsInit ==
    /\ tsConfig \in BOOLEAN
    /\ tsIssued = {}
    /\ tsToken = Garbage
    /\ tsType = "access"
    /\ tsResult = "none"

InitTS == MainInit /\ AzIdle /\ TsInit /\ GwIdle /\ RegIdle /\ GdIdle

NextTS ==
    \/ \E u \in UserIds : TsGenerateAuthTokens(u)
    \/ \E tok \in tsIssued \cup issued \cup {Garbage}, type \in TokenTypes :
          TsVerifyToken(tok, type)
    \/ \E d \in Deltas : Tick(d)

SpecTS == InitTS /\ [][NextTS]_vars

\* C8: verifyToken returns a payload only for a token whose type claim equals
\* the expected type; on any other token, however well signed, it returns null.
C8_KindBinding ==
    (tsResult # "none" /\ TypeClaim(tsToken) # tsType) => tsResult = "null"

\* an unexpired refresh token signed by the service was verified as access
C8_Witness ==
    /\ tsConfig
    /\ tsToken \in tsIssued /\ tsToken.kind = "ts-refresh"
    /\ now < TsExpOf(tsToken)
    /\ tsType = "access"
    /\ tsResult = "null"

----------------------------------------------------------------------------
(* The middleware chain of a module-scoped route:                          *)
(* authenticate | optionalAuthenticate, then authorize(allowedRoles, module) *)

\* Object.values(ROLES): the roles a stored identity can have
StoredRoles == {"admin", "dube_admin", "dube_viewer", "wfp_admin",
                "wfp_viewer", "user"}

\* the (allowedRoles, module) pairs that routes/wfpRoutes.js and
\* routes/dubeRoutes.js pass to authorize
RouteRequirements ==
    {[roles |-> {"wfp_admin", "wfp_viewer"}, module |-> "wfp"],
     [roles |-> {"wfp_admin"}, module |-> "wfp"],
     [roles |-> {"wfp_admin", "wfp_viewer", "wfp_health_officer"},
      module |-> "wfp"],
     [roles |-> {"wfp_admin", "wfp_health_officer"}, module |-> "wfp"],
     [roles |-> {"dube_admin", "dube_viewer"}, module |-> "dube"],
     [roles |-> {"dube_admin"}, module |-> "dube"],
     [roles |-> {"dube_admin", "dube_field_agent"}, module |-> "dube"]}

\* the credentials a request can carry at second 0: junk, a fresh access token
\* of u1, an access token of u1 that has just expired, a refresh token of u1,
\* and a fresh access token whose subject is in no store
GateTokens ==
    {Garbage, AccessTokenOf("u1", 0), AccessTokenOf("u1", 0 - AccessTTL),
     RefreshTokenOf("u1", 0), AccessTokenOf(GhostId, 0)}

\* user.modules read from a User document: userSchema has accessibleModules
\* and no path called modules
DocModules(doc) == Undefined

\* AttachedRole taking the role claim of the token's payload
AttachedRole_FromToken(u) == gwTokRole

\* line 60: role: user.role, of the document that User.findById returned
AttachedRole(u) == users[u].role

\* lines 57-62 and 93-98: the object assigned to req.user
AttachedUser(u) ==
    [present |-> TRUE, role |-> AttachedRole(u),
     modules |-> DocModules(users[u])]

\* CanAttach without the isActive test
CanAttach_IgnoringActive(u) == UserExists(u)

\* line 92: user && user.isActive
CanAttach(u) == UserExists(u) /\ users[u].isActive

\* the outcome of authenticate as [status, next, user]
Authenticate(hdr, tok, fault) ==
    IF NoBearer(hdr) THEN [status |-> 401, next |-> FALSE, user |-> NoUser]
    ELSE IF ~JwtVerify(tok, JWT_SECRET, now)
    THEN [status |-> 401, next |-> FALSE, user |-> NoUser]
    ELSE IF fault THEN [status |-> 500, next |-> FALSE, user |-> NoUser]
    ELSE IF ~UserExists(tok.sub)
    THEN [status |-> 401, next |-> FALSE, user |-> NoUser]
    ELSE IF AccountBlocked(tok.sub)
    THEN [status |-> 403, next |-> FALSE, user |-> NoUser]
    ELSE [status |-> 0, next |-> TRUE, user |-> AttachedUser(tok.sub)]

\* the outcome of optionalAuthenticate as [status, next, user]: the inner catch
\* takes what jwt.verify and User.findById throw
OptionalAuthenticate(hdr, tok, fault) ==
    IF NoBearer(hdr) THEN [status |-> 0, next |-> TRUE, user |-> NoUser]
    ELSE IF ~JwtVerify(tok, JWT_SECRET, now)
    THEN [status |-> 0, next |-> TRUE, user |-> NoUser]
    ELSE IF fault THEN [status |-> 0, next |-> TRUE, user |-> NoUser]
    ELSE IF CanAttach(tok.sub)
    THEN [status |-> 0, next |-> TRUE, user |-> AttachedUser(tok.sub)]
    ELSE [status |-> 0, next |-> TRUE, user |-> NoUser]

\* the first middleware of the chain runs
GateMiddleware(out) ==
    /\ gwPc = "start"
    /\ azUser' = out.user
    /\ gwNext' = out.next
    /\ gwStatus' = out.status
    /\ gwPc' = IF out.next THEN "authorize" ELSE "done"
    /\ UNCHANGED <<gwMw, gwHdr, gwTok, gwTokRole, gwFault, azAllowed, azModule, azResult>>
    /\ UNCHANGED mainVars /\ UNCHANGED tsVars
    /\ UNCHANGED regVars /\ UNCHANGED gdVars

GateAuthenticate ==
    /\ gwMw = "authenticate"
    /\ GateMiddleware(Authenticate(gwHdr, gwTok, gwFault))

GateOptionalAuthenticate ==
    /\ gwMw = "optionalAuthenticate"
    /\ GateMiddleware(OptionalAuthenticate(gwHdr, gwTok, gwFault))

\* next() hands the request to authorize(allowedRoles, module)
GateAuthorize ==
    /\ gwPc = "authorize"
    /\ azResult' = Authorize(azUser, azAllowed, azModule)
    /\ gwStatus' = StatusOf(Authorize(azUser, azAllowed, azModule))
    /\ gwPc' = "done"
    /\ UNCHANGED <<gwMw, gwHdr, gwTok, gwTokRole, gwFault, gwNext,
                   azUser, azAllowed, azModule>>
    /\ UNCHANGED mainVars /\ UNCHANGED tsVars
    /\ UNCHANGED regVars /\ UNCHANGED gdVars

\* the default of JWT_CONFIG.REFRESH_SECRET when the environment sets neither
\* JWT_REFRESH_SECRET nor JWT_SECRET
DefaultRefreshSecret == "your-refresh-secret-key-change-this-in-production"

\* config/jwt.js lines 59-81 with NODE_ENV = "production": validateConfig throws
\* when a secret is a default; equal secrets only log a warning
ValidateConfigThrows(accessSecret, refreshSecret_) ==
    DefaultRefreshSecret \in {accessSecret, refreshSecret_}

\* the values of JWT_REFRESH_SECRET that the process starts with
RefreshSecrets ==
    {v \in {JWT_REFRESH_SECRET, JWT_SECRET, DefaultRefreshSecret} :
        ~ValidateConfigThrows(JWT_SECRET, v)}

\* one request at second 0 against a store that holds u1 with any role, module
\* assignment and activity; the role claim of an access token is the role the
\* identity had when the token was signed
InitGate ==
    /\ users \in [UserIds -> [role : StoredRoles,
                              accessibleModules : SUBSET Modules,
                              isActive : BOOLEAN, password : {"pw1"}]]
    /\ tokens = {} /\ issued = {}
    /\ now = 0 /\ events = 0
    /\ reqs = [r \in ReqIds |-> IdleReq] /\ last = IdleReq
    /\ exchanged = {} /\ revokedSeq = {}
    /\ loggedOut = {} /\ preChange = {}
    /\ refreshSecret \in RefreshSecrets
    /\ TsIdle /\ RegIdle /\ GdIdle
    /\ gwMw \in {"authenticate", "optionalAuthenticate"}
    /\ gwHdr \in Headers
    /\ gwTok \in GateTokens \cup {NoTok}
    /\ gwHdr = "none" <=> gwTok = NoTok
    /\ gwTokRole \in IF gwTok.kind = "access" THEN StoredRoles ELSE {"none"}
    /\ gwFault \in BOOLEAN
    /\ gwPc = "start" /\ gwNext = FALSE /\ gwStatus = 0
    /\ azUser = NoUser
    /\ \E rt \in RouteRequirements :
          azAllowed = rt.roles /\ azModule = rt.module
    /\ azResult = "none"

NextGate ==
    \/ GateAuthenticate
    \/ GateOptionalAuthenticate
    \/ GateAuthorize

SpecGate == InitGate /\ [][NextGate]_vars

\* the identity the request's token names
GateSubject == gwTok.sub

\* C11: the principal that authenticate attaches carries the module set stored
\* for the identity, so that authorize sees exactly the stored assignments.
C11_PrincipalCarriesModules ==
    (gwMw = "authenticate" /\ gwNext)
    => UserModules(azUser) = users[GateSubject].accessibleModules

----------------------------------------------------------------------------
(* routes/authRoutes.js POST /register and AuthController.register *)

\* the email addresses the requests send; an identity is named by its email
RegEmails == UserIds \cup {"u2", "U2"}

\* String.prototype.toLowerCase on the addresses above
EmailToLowerCase(email) == IF email = "U2" THEN "u2" ELSE email

\* check("email").trim().notEmpty().isEmail().normalizeEmail() rewrites
\* req.body.email in lower case
NormalizeEmail(email) == EmailToLowerCase(email)

\* userSchema.email lowercase: true, applied when the document is built
SchemaEmail(email) == EmailToLowerCase(email)

\* EmailTaken with no unique index on email
EmailTaken_Never(email) == FALSE

\* userSchema.email unique: true, the index refuses a second document
EmailTaken(email) == UserExists(email)

\* what a client can send as role: nothing, or any role name
RegRoles == Roles \cup {"absent"}

\* the roles open to self-registration
SelfRoles == {"user", "dube_viewer", "wfp_viewer"}

\* RoleAllowed accepting every role name
RoleAllowed_Any(role) == TRUE

\* check("role").optional().isIn(["user", "dube_viewer", "wfp_viewer"])
RoleAllowed(role) == role = "absent" \/ role \in SelfRoles

\* const { role = "user" } = req.body
RoleOrDefault(role) == IF role = "absent" THEN "user" ELSE role

\* lines 52-58: the validators of the route ran; validationResult(req)
RegisterStart(q, email, role, valid) ==
    /\ events < MaxEvents
    /\ regs[q].pc = "idle"
    /\ \A p \in ReqIds : p < q => regs[p].pc # "idle"
    /\ LET base == [IdleReg EXCEPT !.email = email, !.role = role,
                                   !.valid = valid]
       IN  regs' = [regs EXCEPT ![q] =
                      IF valid /\ RoleAllowed(role)
                      THEN [base EXCEPT !.pc = "findOne"]
                      ELSE [base EXCEPT !.pc = "done", !.status = 400]]
    /\ events' = events + 1
    /\ UNCHANGED <<users, tokens, now, issued, reqs, last, exchanged,
                   revokedSeq, loggedOut, preChange,
                   refreshSecret, registered>>
    /\ UNCHANGED azVars /\ UNCHANGED tsVars /\ UNCHANGED gwVars
    /\ UNCHANGED gdVars

\* lines 63-69: User.findOne({email})
RegisterFindOne(q) ==
    /\ regs[q].pc = "findOne"
    /\ regs' = [regs EXCEPT ![q] =
                  IF UserExists(NormalizeEmail(regs[q].email))
                  THEN [regs[q] EXCEPT !.pc = "done", !.status = 409]
                  ELSE [regs[q] EXCEPT !.pc = "save"]]
    /\ UNCHANGED <<registered>>
    /\ UNCHANGED mainVars
    /\ UNCHANGED azVars /\ UNCHANGED tsVars /\ UNCHANGED gwVars
    /\ UNCHANGED gdVars

\* lines 72-106: user.save() (refused by the unique index on email, or by the
\* enum of role), generateTokens, saveRefreshToken, 201; what save refuses
\* lands in the catch (500)
RegisterSave(q) ==
    /\ regs[q].pc = "save"
    /\ LET e == SchemaEmail(NormalizeEmail(regs[q].email))
           role == RoleOrDefault(regs[q].role)
           newRefresh == RefreshTokenOf(e, now)
       IN  IF EmailTaken(e) \/ role \notin StoredRoles
           THEN /\ regs' = [regs EXCEPT ![q] =
                              [regs[q] EXCEPT !.pc = "done", !.status = 500]]
                /\ UNCHANGED <<users, tokens, issued, registered>>
           ELSE /\ users' = [u \in DOMAIN users \cup {e} |->
                               IF u = e
                               THEN [role |-> role, accessibleModules |-> {},
                                     isActive |-> TRUE, password |-> "pw1"]
                               ELSE users[u]]
                /\ registered' = registered \cup {e}
                /\ tokens' = tokens \cup {NewTokenDoc(e, newRefresh, now)}
                /\ issued' = issued \cup {AccessTokenOf(e, now), newRefresh}
                /\ regs' = [regs EXCEPT ![q] =
                              [regs[q] EXCEPT !.pc = "done", !.status = 201,
                                              !.created = TRUE]]
    /\ UNCHANGED <<now, events, reqs, last, exchanged, revokedSeq,
                   loggedOut, preChange, refreshSecret>>
    /\ UNCHANGED azVars /\ UNCHANGED tsVars /\ UNCHANGED gwVars
    /\ UNCHANGED gdVars

InitReg == MainInit /\ AzIdle /\ TsIdle /\ GwIdle /\ RegIdle /\ GdIdle

NextReg ==
    \/ \E q \in ReqIds, email \in RegEmails, role \in RegRoles,
          valid \in BOOLEAN :
          RegisterStart(q, email, role, valid)
    \/ \E q \in ReqIds : RegisterFindOne(q)
    \/ \E q \in ReqIds : RegisterSave(q)

SpecReg == InitReg /\ [][NextReg]_vars

RegAnswered(code) == {q \in ReqIds : regs[q].status = code}

\* C25: no two identities have the same email up to letter case; of the
\* register requests for one email (up to case) at most one is answered 201,
\* and none when the identity existed before; the requests that are not
\* answered 201 add no identity and no Token record.
C25_EmailUnique ==
    /\ \A a \in DOMAIN users, b \in DOMAIN users :
          EmailToLowerCase(a) = EmailToLowerCase(b) => a = b
    /\ \A p \in RegAnswered(201), q \in RegAnswered(201) :
          p # q => EmailToLowerCase(regs[p].email)
                      # EmailToLowerCase(regs[q].email)
    /\ \A q \in RegAnswered(201) : EmailToLowerCase(regs[q].email) \notin UserIds
    /\ Cardinality(DOMAIN users \ UserIds) = Cardinality(RegAnswered(201))
    /\ Cardinality({d \in tokens : d.userId \notin UserIds})
          = Cardinality(RegAnswered(201))

\* two requests for the same address in different case both passed
\* User.findOne; one created the identity, the other was refused by the index
C25_Witness ==
    \E p \in RegAnswered(201), q \in RegAnswered(500) :
       /\ regs[p].email # regs[q].email
       /\ EmailToLowerCase(regs[p].email) = EmailToLowerCase(regs[q].email)
       /\ Cardinality(DOMAIN users \ UserIds) = 1

----------------------------------------------------------------------------
(* middleware/wfpAuth.js canManageCycle and canViewRegion *)

Guards == {"canManageCycle", "canViewRegion"}

\* cycle ids
Cycles == {"c1", "c2"}

\* region names as they are stored in assignedRegions
StoredRegions == {"Afar", "oromia"}

\* region names as a request writes them
RequestedRegions == {"afar", "AFAR", "Oromia", "Somali"}

\* String.prototype.toLowerCase on the region names above
ToLowerCase(str) ==
    CASE str \in {"Afar", "afar", "AFAR"} -> "afar"
      [] str \in {"Oromia", "oromia"} -> "oromia"
      [] str \in {"Somali", "somali"} -> "somali"
      [] OTHER -> str

\* the roles of the principals that reach the guards
GuardRoles == {"admin", "wfp_admin", "wfp_viewer", "wfp_health_officer", "user"}

\* lines 162-166: req.user.assignedCycles && assignedCycles.some(... === cycleId)
IsAssigned(user, cycleId) ==
    user.assignedCycles # Undefined /\ cycleId \in user.assignedCycles

\* lines 212-214: assignedRegions.some(r => r.toLowerCase() === requested.toLowerCase())
CanView(user, region) ==
    \E a \in user.assignedRegions : ToLowerCase(a) = ToLowerCase(region)

\* the middleware returned by canManageCycle(cycleIdParam), applied to req.user
\* and to the cycle id found in params, body or query ("none": not found)
CanManageCycle(user, cycleId) ==
    IF ~user.present THEN "401"
    ELSE IF user.role = "admin" THEN "next"
    ELSE IF cycleId = "none" THEN "next"
    ELSE IF user.role = "wfp_admin" \/ IsAssigned(user, cycleId) THEN "next"
    ELSE "403"

\* canViewRegion applied to req.user and to query.region || body.region
CanViewRegion(user, region) ==
    IF ~user.present THEN "401"
    ELSE IF user.role \in {"admin", "wfp_admin"} THEN "next"
    ELSE IF /\ region # "none"
            /\ user.assignedRegions # Undefined
            /\ user.assignedRegions # {}
            /\ ~CanView(user, region)
         THEN "403"
    ELSE "next"

GuardPrincipals ==
    {NoGuardUser} \cup
    [present : {TRUE}, role : GuardRoles,
     assignedCycles : (SUBSET Cycles) \cup {Undefined},
     assignedRegions : (SUBSET StoredRegions) \cup {Undefined},
     hasWfpPermission : {"undefined"}]

GdInit ==
    /\ gdGuard \in Guards
    /\ gdUser \in GuardPrincipals
    /\ gdRes \in {"none"} \cup
                 (IF gdGuard = "canManageCycle" THEN Cycles
                  ELSE RequestedRegions)
    /\ gdRoles = {}
    /\ gdResult = "none"

GuardRequest ==
    /\ gdResult = "none"
    /\ gdResult' = IF gdGuard = "canManageCycle"
                   THEN CanManageCycle(gdUser, gdRes)
                   ELSE CanViewRegion(gdUser, gdRes)
    /\ UNCHANGED <<gdGuard, gdUser, gdRes, gdRoles>>
    /\ UNCHANGED mainVars
    /\ UNCHANGED azVars /\ UNCHANGED tsVars /\ UNCHANGED gwVars
    /\ UNCHANGED regVars

InitGuards == MainInit /\ AzIdle /\ TsIdle /\ GwIdle /\ RegIdle /\ GdInit

NextGuards == GuardRequest

SpecGuards == InitGuards /\ [][NextGuards]_vars

\* the named resource is in the principal's assignment set
InAssignmentSet ==
    IF gdGuard = "canManageCycle"
    THEN gdUser.assignedCycles # Undefined /\ gdRes \in gdUser.assignedCycles
    ELSE /\ gdUser.assignedRegions # Undefined
         /\ \E a \in gdUser.assignedRegions :
               ToLowerCase(a) = ToLowerCase(gdRes)

\* C20: for an authenticated principal, a request that names a resource is
\* allowed exactly when the role is admin or wfp_admin or the resource is in
\* the principal's assignment set (regions compared case-insensitively); a
\* request that names no resource is allowed.
C20_ResourceGuards ==
    (gdResult # "none" /\ gdUser.present) =>
        IF gdRes = "none"
        THEN gdResult = "next"
        ELSE gdResult = "next" <=>
                (gdUser.role \in {"admin", "wfp_admin"} \/ InAssignmentSet)

----------------------------------------------------------------------------
(* middleware/authorize.js hasPermission, middleware/wfpAuth.js             *)
(* requireWfpRole and requireWfpPermission, next to the resource guards     *)

\* permissionMap[permission] || []
PermissionMap(permission) ==
    CASE permission = "dube.merchant.create" ->
            {"dube_admin", "admin", "super_admin"}
      [] permission = "dube.merchant.view" ->
            {"dube_admin", "dube_viewer", "admin", "super_admin"}
      [] permission = "dube.customer.create" ->
            {"dube_admin", "dube_field_agent", "admin", "super_admin"}
      [] permission = "dube.customer.view" ->
            {"dube_admin", "dube_viewer", "dube_field_agent", "admin",
             "super_admin"}
      [] permission = "wfp.beneficiary.create" ->
            {"wfp_admin", "wfp_health_officer", "admin", "super_admin"}
      [] permission = "wfp.beneficiary.view" ->
            {"wfp_admin", "wfp_viewer", "wfp_health_officer", "admin",
             "super_admin"}
      [] permission = "user.manage" -> {"admin", "super_admin"}
      [] permission = "system.settings" -> {"super_admin"}
      [] OTHER -> {}

\* the keys of permissionMap, and one permission string that is not a key
Permissions ==
    {"dube.merchant.create", "dube.merchant.view", "dube.customer.create",
     "dube.customer.view", "wfp.beneficiary.create", "wfp.beneficiary.view",
     "user.manage", "system.settings", "dube.merchant.delete"}

\* the middleware returned by hasPermission(permission), applied to req.user
HasPermission(user, permission) ==
    IF ~user.present THEN "401"
    ELSE IF PermissionMap(permission) = {} THEN "next"
    ELSE IF user.role = "super_admin" \/ user.role \in PermissionMap(permission)
         THEN "next"
    ELSE "403"

WfpRoles == {"wfp_admin", "wfp_viewer", "wfp_health_officer"}

\* userRole.startsWith("wfp_") on the role names of Roles
StartsWithWfp(role) == role \in WfpRoles

\* the middleware returned by requireWfpRole(...allowedRoles)
RequireWfpRole(user, allowedRoles) ==
    IF ~user.present THEN "401"
    ELSE IF user.role = "admin" THEN "next"
    ELSE IF ~StartsWithWfp(user.role) THEN "403"
    ELSE IF user.role \notin allowedRoles THEN "403"
    ELSE "next"

\* permissions as the comment of requireWfpPermission names them
WfpPermissions == {"view_beneficiaries", "create_transactions"}

\* the middleware returned by requireWfpPermission(permission):
\* req.user.hasWfpPermission && req.user.hasWfpPermission(permission)
RequireWfpPermission(user, permission) ==
    IF ~user.present THEN "401"
    ELSE IF user.role = "admin" THEN "next"
    ELSE IF user.hasWfpPermission = "true" THEN "next"
    ELSE "403"

PermGuards == {"hasPermission", "requireWfpRole", "requireWfpPermission",
               "canManageCycle", "canViewRegion"}

PermPrincipals ==
    {NoGuardUser} \cup
    [present : {TRUE}, role : Roles,
     assignedCycles : {{}, {"c1"}, Undefined},
     assignedRegions : {{}, {"Afar"}, Undefined},
     hasWfpPermission : {"undefined", "true", "false"}]

\* what the guard was built with or what the request names
PermInit ==
    /\ gdGuard \in PermGuards
    /\ gdUser \in PermPrincipals
    /\ gdRes \in CASE gdGuard = "hasPermission" -> Permissions
                   [] gdGuard = "requireWfpRole" -> {"none"}
                   [] gdGuard = "requireWfpPermission" -> WfpPermissions
                   [] gdGuard = "canManageCycle" -> {"none"} \cup Cycles
                   [] OTHER -> {"none"} \cup RequestedRegions
    /\ gdRoles \in IF gdGuard = "requireWfpRole" THEN SUBSET WfpRoles ELSE {{}}
    /\ gdResult = "none"

PermissionRequest ==
    /\ gdResult = "none"
    /\ gdResult' = CASE gdGuard = "hasPermission" -> HasPermission(gdUser, gdRes)
                     [] gdGuard = "requireWfpRole" ->
                           RequireWfpRole(gdUser, gdRoles)
                     [] gdGuard = "requireWfpPermission" ->
                           RequireWfpPermission(gdUser, gdRes)
                     [] gdGuard = "canManageCycle" ->
                           CanManageCycle(gdUser, gdRes)
                     [] OTHER -> CanViewRegion(gdUser, gdRes)
    /\ UNCHANGED <<gdGuard, gdUser, gdRes, gdRoles>>
    /\ UNCHANGED mainVars
    /\ UNCHANGED azVars /\ UNCHANGED tsVars /\ UNCHANGED gwVars
    /\ UNCHANGED regVars

InitPerm == MainInit /\ AzIdle /\ TsIdle /\ GwIdle /\ RegIdle /\ PermInit

NextPerm == PermissionRequest

SpecPerm == InitPerm /\ [][NextPerm]_vars

\* C29: whatever the permission string, mapped or not, hasPermission calls
\* next() for an authenticated principal only if its role is super_admin or
\* is listed for the permission in the map.
C29_PermissionFailsClosed ==
    (gdGuard = "hasPermission" /\ gdUser.present /\ gdResult = "next")
    => \/ gdUser.role = "super_admin"
       \/ gdUser.role \in PermissionMap(gdRes)

\* C30: every guard calls next() for a principal whose role is super_admin,
\* whatever the guard was built with and whatever the request names.
C30_TopRolePassesEveryGuard ==
    (gdResult # "none" /\ gdUser.present /\ gdUser.role = "super_admin")
    => gdResult = "next"

----------------------------------------------------------------------------
(* Properties of authorize on the module-scoped routes *)

\* the requirement authorize was built with
AzRequirement == [roles |-> azAllowed, module |-> azModule]

\* C12: a principal with role admin that holds the module is allowed on every
\* module-scoped WFP and DUBE route, also where allowedRoles lists only module
\* roles.
C12_AdminAllowedOnRoutes ==
    (/\ azResult # "none"
     /\ azUser.present
     /\ azUser.role = "admin"
     /\ AzRequirement \in RouteRequirements
     /\ ModuleSatisfied(azUser, azModule))
    => azResult = "next"

\* the admin role of a module
ModuleAdminOf(module) ==
    IF module = "wfp" THEN "wfp_admin"
    ELSE IF module = "dube" THEN "dube_admin"
    ELSE "none"

\* C13: the admin role of module M, holding M, is allowed on every requirement
\* scoped to M with a non-empty allowedRoles, whether or not the list names it.
C13_ModuleAdminBypass ==
    (/\ azResult # "none"
     /\ azUser.present
     /\ azModule # "null"
     /\ azUser.role = ModuleAdminOf(azModule)
     /\ azAllowed # {}
     /\ ModuleSatisfied(azUser, azModule))
    => azResult = "next"

----------------------------------------------------------------------------
(* Properties of the middleware chain *)

\* what the request of the chain carried, told from header and token alone
GateCarried == Carried(gwHdr, gwTok, now)

\* the token passed jwt.verify, so that User.findById was called
GateStoreReached == GateCarried \in {"unknown", "ok"}

\* the store answered and holds an active identity for the token's subject
GateActiveSubject ==
    /\ GateCarried = "ok"
    /\ ~gwFault
    /\ users[GateSubject].isActive

\* the request failed authentication: no usable credential or no such subject
\* before authenticate, no principal before authorize
GateAuthnFailure ==
    IF gwMw = "authenticate"
    THEN \/ ~GateStoreReached
         \/ GateCarried = "unknown" /\ ~gwFault
    ELSE ~GateActiveSubject

\* the request failed authorization: the account is blocked, or authorize
\* refused the principal's module, role or rank
GateAuthzFailure ==
    IF gwMw = "authenticate"
    THEN /\ GateCarried = "ok" /\ ~gwFault
         /\ \/ ~users[GateSubject].isActive
            \/ azResult \in {"403-module", "403-permissions", "403-privileges"}
    ELSE /\ GateActiveSubject
         /\ azResult \in {"403-module", "403-permissions", "403-privileges"}

C15_OptionalGate ==
    (gwMw = "optionalAuthenticate" /\ gwPc # "start") =>
        /\ gwNext
        /\ gwPc = "authorize" => gwStatus = 0
        /\ azUser.present <=> GateActiveSubject
        /\ azUser.present => azUser.role = users[GateSubject].role

\* a fresh token of a deactivated identity went through without a principal
C15_Witness ==
    /\ gwMw = "optionalAuthenticate" /\ gwPc = "authorize"
    /\ GateCarried = "ok" /\ ~gwFault
    /\ ~users[GateSubject].isActive
    /\ gwNext /\ ~azUser.present

\* C18: when User.findById throws in the gate, the answer is 500; the request
\* is neither refused with 401 / 403 nor let through as anonymous.
C18_StoreFailureIs500 ==
    (gwPc # "start" /\ gwFault /\ GateStoreReached)
    => (gwStatus = 500 /\ ~gwNext)

\* C24: under every secret configuration the process starts with, authenticate
\* answers 401, and does not call next(), for every token that generateTokens
\* issued as a refresh token.
C24_RefreshIsNotAccess ==
    (/\ gwMw = "authenticate" /\ gwPc # "start"
     /\ gwHdr = "Bearer" /\ gwTok.kind = "refresh")
    => gwStatus = 401 /\ ~gwNext

\* C28: the principal that authenticate attaches has the role stored for the
\* identity when the request is handled, whatever role claim the token carries,
\* and the decision of authorize is the one for the stored role.
C28_StoredRoleDecides ==
    (gwMw = "authenticate" /\ gwNext)
    => /\ azUser.role = users[GateSubject].role
       /\ gwPc = "done"
          => azResult = Authorize([azUser EXCEPT
                                      !.role = users[GateSubject].role],
                                  azAllowed, azModule)

\* a token signed while the identity was admin was presented after the stored
\* role became wfp_viewer, and authorize decided for wfp_viewer
C28_Witness ==
    /\ gwMw = "authenticate" /\ gwNext /\ gwPc = "done"
    /\ gwTokRole = "admin"
    /\ users[GateSubject].role = "wfp_viewer"
    /\ azUser.role = "wfp_viewer"
    /\ azResult # "next"

----------------------------------------------------------------------------
(* Properties of the refresh exchange *)

\* the requests in flight, and the one answered last
Requests == {reqs[r] : r \in ReqIds} \cup {last}

\* C1: once an exchange of refresh token T has answered 200, every exchange of
\* T that arrives afterwards is answered 401, never runs generateTokens and
\* never creates a Token document.
C1_SequentialReplayRejected ==
    \A rq \in Requests :
        (rq.op = "refresh" /\ rq.afterSuccess) =>
            /\ rq.pc \in {"findOne", "done"}
            /\ rq.pc = "done" => rq.status = 401
            /\ rq.newIat = -1
            /\ ~rq.created

\* a replay of a still unexpired, already exchanged token was answered 401
C1_Witness ==
    /\ last.op = "refresh" /\ last.afterSuccess
    /\ last.status = 401
    /\ now < last.tok.iat + RefreshTTL

\* C2: of the exchange requests for one refresh token, at most one answers 200,
\* however their store reads and writes interleave.
C2_AtMostOneSuccess ==
    ~(last.op = "refresh" /\ last.status = 200 /\ last.again)

\* C9: a refresh token issued to a subject before a successful password change
\* (made while no exchange was in flight) is answered 401 on every later
\* exchange, which never generates a pair nor creates a Token document.
C9_PasswordChangeRevokes ==
    \A rq \in Requests :
        (rq.op = "refresh" /\ rq.afterPwd) =>
            /\ rq.pc \in {"findOne", "done"}
            /\ rq.pc = "done" => rq.status = 401
            /\ rq.newIat = -1
            /\ ~rq.created

\* an unexpired, never exchanged token was refused after the password change
C9_Witness ==
    /\ last.op = "refresh" /\ last.afterPwd
    /\ last.status = 401
    /\ last.tok \notin exchanged
    /\ now < last.tok.iat + RefreshTTL

\* request r is answered in this step
Answered(r) == InFlight(r) /\ reqs'[r].pc = "idle"

\* C16: when an exchange is refused because the record of its refresh token
\* is marked used, the subject's other unused records are revoked: the step
\* that refuses the replay leaves no record of the subject that an exchange
\* would accept.
C16_ReplayRevokesChain ==
    [][\A r \in ReqIds :
          (/\ reqs[r].op = "refresh" /\ reqs[r].pc = "findOne"
           /\ Answered(r)
           /\ IsUsed(reqs[r].tok))
          => Exchangeable(tokens', reqs[r].tok.sub, now) = {}]_vars

\* C17: an exchange never hands out a new pair while the subject's isActive
\* is false: the step that creates the Token document and answers 200 is
\* taken for an active subject only.
C17_InactiveCannotRenew ==
    [][\A r \in ReqIds :
          (/\ reqs[r].op = "refresh" /\ reqs[r].pc = "create"
           /\ Answered(r)
           /\ last'.status = 200)
          => users[reqs[r].tok.sub].isActive]_vars

----------------------------------------------------------------------------
(* One exchange at a time: the handlers of Spec with a single request slot *)

\* the documents of store that hold the string tok and are not marked used
UnusedDocs(store, tok) == {d \in store : d.token = tok /\ ~d.used}

\* the documents of the store after a step whose token string the store
\* before the step did not hold
Inserted == {d \in tokens' : ~\E e \in tokens : e.token = d.token}

NextSeq ==
    \/ \E u \in UserIds, pwd \in Passwords : Login(u, pwd)
    \/ \E tok \in Presentable \cup {NoTok} : RefreshStart(1, tok)
    \/ RefreshFindOne(1)
    \/ RefreshFindUser(1)
    \/ RefreshSave(1)
    \/ RefreshCreate(1)
    \/ \E d \in Deltas : Tick(d)

SpecSeq == Init /\ [][NextSeq]_vars

\* C21: an exchange of T that answers 200 leaves T marked used and has
\* inserted exactly one record, unused, of T's subject, whose token was handed
\* out; an exchange that found T unused and answers 401 or 500 leaves the
\* Credential Store as it was, with T still unused.
C21_ExchangeAllOrNothing ==
    [][\A r \in ReqIds :
          (reqs[r].op = "refresh" /\ Answered(r))
          => /\ last'.status = 200
                => /\ UnusedDocs(tokens', reqs[r].tok) = {}
                   /\ Cardinality(Inserted) = 1
                   /\ \A d \in Inserted : /\ ~d.used
                                          /\ d.userId = reqs[r].tok.sub
                                          /\ d.token \in issued'
             /\ last'.status \in {401, 500}
                => /\ tokens' = tokens
                   /\ reqs[r].pc \in {"findUser", "save", "create"}
                      => UnusedDocs(tokens', reqs[r].tok) # {}]_vars

\* C27: two issuances for one user never produce the same refresh token
\* string, so Token.create is never refused by the unique index on token and
\* no exchange is answered 500.
C27_TokensAlwaysStorable ==
    /\ \A r \in ReqIds :
          (reqs[r].op = "refresh" /\ reqs[r].pc \in {"save", "create"})
          => ~DuplicateKey(RefreshTokenOf(reqs[r].tok.sub, reqs[r].newIat))
    /\ last.op = "refresh" => last.status # 500

----------------------------------------------------------------------------
(* AuthController.logout, interleaved with the exchanges *)

\* lines 285-299: Token.findOneAndUpdate({token, type: "refresh"}, {used: true})
\* when the body has a refreshToken, then 200 in every case
Logout(tok) ==
    /\ events < MaxEvents
    /\ tokens' = IF tok = NoTok THEN tokens ELSE MarkUsed(tok)
    /\ loggedOut' = IF tok = NoTok THEN loggedOut ELSE loggedOut \cup {tok}
    /\ events' = events + 1
    /\ UNCHANGED <<users, now, issued, reqs, last, exchanged, revokedSeq,
                   preChange, refreshSecret>>
    /\ UNCHANGED azVars /\ UNCHANGED tsVars /\ UNCHANGED gwVars
    /\ UNCHANGED regVars /\ UNCHANGED gdVars

NextLogout ==
    \/ \E u \in UserIds, pwd \in Passwords : Login(u, pwd)
    \/ \E r \in ReqIds, tok \in Presentable \cup {NoTok} : RefreshStart(r, tok)
    \/ \E r \in ReqIds : RefreshFindOne(r)
    \/ \E r \in ReqIds : RefreshFindUser(r)
    \/ \E r \in ReqIds : RefreshSave(r)
    \/ \E r \in ReqIds : RefreshCreate(r)
    \/ \E tok \in Presentable \cup {NoTok} : Logout(tok)
    \/ \E d \in Deltas : Tick(d)

SpecLogout == Init /\ [][NextLogout]_vars

\* C22: once logout(T) has answered 200, no exchange of T that completes
\* afterwards answers 200, however the two requests are interleaved.
C22_LogoutEndsSession ==
    [][\A r \in ReqIds :
          (reqs[r].op = "refresh" /\ Answered(r) /\ last'.status = 200)
          => reqs[r].tok \notin loggedOut]_vars

----------------------------------------------------------------------------
(* Properties of the expiry checks of the refresh exchange *)

\* request r is answered 401 by this step, at its arrival or later
Refused(r) ==
    /\ reqs'[r].pc = "idle"
    /\ last' # last \/ InFlight(r)
    /\ last'.op = "refresh" /\ last'.status = 401

\* C23: an exchange gets past jwt.verify only while the clock is before the
\* token's signed expiry, and past Token.findOne only if a record of the token
\* expires after the moment the request was received; no sweep takes part, and
\* a step that answers 401 leaves the Credential Store as it was.
C23_PassiveExpiry ==
    [][\A r \in ReqIds :
          /\ (~InFlight(r) /\ reqs'[r].op = "refresh" /\ reqs'[r].pc = "findOne")
             => now < ExpOf(reqs'[r].tok)
          /\ (reqs[r].op = "refresh" /\ reqs[r].pc = "findOne"
                /\ reqs'[r].pc = "findUser")
             => /\ reqs[r].t0 < ExpOf(reqs[r].tok)
                /\ \E d \in tokens : /\ d.token = reqs[r].tok
                                     /\ d.expiresAt > reqs[r].t0
          /\ Refused(r) => tokens' = tokens]_vars

\* the exchange of a refresh token was refused after its expiry while its
\* record was still in the store, unused
C23_Witness ==
    /\ last.op = "refresh" /\ last.status = 401
    /\ last.tok.kind = "refresh"
    /\ now >= ExpOf(last.tok)
    /\ UnusedDocs(tokens, last.tok) # {}

----------------------------------------------------------------------------
(* Properties of changePassword against exchanges in flight *)

\* C26: when changePassword answers 200 the subject has no unused refresh
\* record, and from then on no exchange of a token issued before the change
\* answers 200, wherever the exchange stood when the change ran.
C26_ChangeCutsInFlight ==
    [][\A r \in ReqIds :
          /\ (/\ reqs[r].op = "auth" /\ reqs[r].route = "change-password"
              /\ Answered(r) /\ last'.status = 200)
             => \A d \in tokens' : d.userId = reqs[r].tok.sub => d.used
          /\ (reqs[r].op = "refresh" /\ Answered(r) /\ last'.status = 200)
             => reqs[r].tok \notin preChange]_vars

----------------------------------------------------------------------------
(* Properties of the authentication gate *)

\* C5: a request that arrives with a correctly signed, unexpired access token
\* of a stored identity whose isActive is already false is answered 403 and
\* never reaches the handler.
C5_InactiveBlocksAll ==
    \A rq \in Requests :
        (rq.op = "auth" /\ rq.afterDeact) =>
            /\ ~rq.reached
            /\ rq.pc \in {"findUser", "done"}
            /\ rq.pc = "done" => rq.status = 403

C5_Witness ==
    /\ last.op = "auth" /\ last.afterDeact
    /\ last.status = 403

\* C10: the handler is reached only by a request that carried a Bearer header
\* with a correctly signed, unexpired access token of a stored identity that
\* was active when the request arrived; a request with no header, another
\* scheme, an invalid token, an expired token or an unknown subject is
\* answered 401 and never reaches the handler.
C10_GateFailsClosed ==
    \A rq \in Requests :
        rq.op = "auth" =>
            /\ rq.reached => (rq.why = "ok" /\ rq.activeAtStart)
            /\ rq.why # "ok" =>
                  /\ ~rq.reached
                  /\ rq.pc \in {"findUser", "done"}
                  /\ rq.pc = "done" => rq.status = 401

\* a request is behind the gate while one with an unknown subject was refused
C10_Witness ==
    /\ \E r \in ReqIds : reqs[r].op = "auth" /\ reqs[r].reached
    /\ last.op = "auth" /\ last.why = "unknown"
    /\ last.status = 401

====
